---- MODULE Spec2Model ----
(***************************************************************************)
(* Model of the underwriting pipeline of wit-factoring.                    *)
(*                                                                         *)
(* Part A: the adverse-media staged filter of phase 3                      *)
(*   (phase3VerificationStep.execute, analyzeStage1Snippets,               *)
(*    fetchRelevantArticleContents, analyzeStage2FullContent,              *)
(*    updateEgoSearchWithAnalysis, egoSearchTool.execute).                 *)
(* Part B: the bank-statement step of phase 2                              *)
(*   (phase2BankStatementStep.execute).                                    *)
(*                                                                         *)
(* Index convention: queries, search results and articles are sequences,   *)
(* so index i of the model is index i-1 of the code.  Persons keep the     *)
(* code's numbering: person 0 is the applicant, persons 1..nReps are the   *)
(* representatives.                                                        *)
(***************************************************************************)
EXTENDS Integers, Sequences, FiniteSets, TLC

\* ---------------------------------------------------------------- bounds
\* at most MaxReps representatives are searched besides the applicant
MaxReps == 1
\* number of negative queries per person (the code issues 4)
NumQueries == 2
\* at most MaxHits candidates (search results plus fraud-site articles) per run
MaxHits == 2

VARIABLES
  pc3,            \* position of phase3VerificationStep.execute
  ego,            \* person -> egoSearchResult (fraud site, negative searches, summary)
  hits,           \* person -> what the searches returned (kept for the properties)
  stage1Results,  \* what analyzeStage1Snippets returned
  stage1Err,      \* the stage-1 generateObject call threw
  fetched,        \* <<person, query, result>> for which fetchArticleContent was called
  stage2Results,  \* what analyzeStage2FullContent returned (egoSearchAnalysis.persons)
  stage2Err,      \* the stage-2 generateObject call threw
  report          \* 申込者エゴサーチサマリー of the phase-3 result

egoVars == <<pc3, ego, hits, stage1Results, stage1Err, fetched, stage2Results, stage2Err, report>>

VARIABLES
  pc2,              \* position of phase2BankStatementStep.execute
  ocrResult,        \* what the passbook OCR tool returned
  ledger,           \* the counterparty's inflows printed in the main passbook
  collaterals,      \* the expected inflows read from the record store
  mainBankAnalysis, \* result.object of the main-passbook generateObject call
  subBankAnalysis,  \* subResult.object of the sub-passbook generateObject call
  phase2Results,    \* phase2Results of the value the step returns
  phase2Error       \* what made the step throw

bankVars == <<pc2, ocrResult, ledger, collaterals, mainBankAnalysis, subBankAnalysis,
              phase2Results, phase2Error>>

VARIABLES
  phaseStatus,     \* step of the parallel block -> "running", "success" or "failed"
  phaseData,       \* step of the parallel block -> what it returned
  runStatus,       \* status of the run of integratedWorkflow
  runResult,       \* what the run returns (the value of its last step)
  pc4,             \* position of phase4ReportGenerationStep.execute
  inputData,       \* inputData of phase 4, keyed by the three step ids
  inputDataForAI,  \* what buildInputData returned
  fullPrompt,      \* what buildFullPrompt returned (its factoring section)
  stepInput,       \* step of the parallel block -> the inputData it was started with
  phase4Error      \* what made phase 4 throw

flowVars == <<phaseStatus, phaseData, runStatus, runResult, pc4, inputData,
              inputDataForAI, fullPrompt, stepInput, phase4Error>>

VARIABLES
  pcUnit,                     \* which tool or slice of phase 3 runs, and where it is
  attached,                   \* the files attached to the record, field by field
  backend,                    \* how the record store, the OCR, the classifier and the search answer
  ocrResults,                 \* results of the two processFiles loops
  classified,                 \* the documents after classifyAndExtractInfo
  ocrOutput,                  \* what googleVisionPurchaseCollateralOcrTool returned
  identityDocuments,          \* identityDocuments of googleVisionIdentityOcrTool
  identityOutput,             \* what googleVisionIdentityOcrTool returned
  identityResult,             \* identityResult of phase 3
  identitySummary,            \* 本人確認サマリー of phase 3
  negativeSearchResults,      \* negativeSearchResults of egoSearchTool
  allCompanies,               \* allCompanies of phase 3
  companySearchResult,        \* what companyVerifyBatchTool returned
  companyVerificationResults  \* companyVerificationResults of phase 3

unitVars == <<pcUnit, attached, backend, ocrResults, classified, ocrOutput,
              identityDocuments, identityOutput, identityResult, identitySummary,
              negativeSearchResults, allCompanies, companySearchResult,
              companyVerificationResults>>

VARIABLES
  pcQuery,      \* where one negative query of the applicant is in the staged filter
  negativeResult,  \* its entry of negativeSearchResults (url and htmlContent of each result)
  triage,       \* the stage-1 answer for the query: result -> needsFullCheck
  verdicts      \* queries of the stage-2 answer: query -> result -> classification

queryVars == <<pcQuery, negativeResult, triage, verdicts>>

VARIABLES
  pc1,            \* position of phase1PurchaseCollateralStep.execute
  ocrReturned,    \* ocrResult: what the purchase/collateral OCR tool returned
  phase1Results,  \* phase1Results of the value the step returns
  phase1Error     \* what made the step throw

phase1Vars == <<pc1, ocrReturned, phase1Results, phase1Error>>

VARIABLES
  pcPdf,            \* where processFiles is with one PDF file
  pdf,              \* the file, the limit and how the Vision API answers for it
  actualPageCount,  \* actualPageCount after the page-count check
  requested,        \* pagesToProcessInBatch of every extraction request sent, in order
  requestFailed     \* a request of the run threw something else than 'Invalid pages'

pdfVars == <<pcPdf, pdf, actualPageCount, requested, requestFailed>>

vars == <<egoVars, bankVars, flowVars, unitVars, queryVars, phase1Vars, pdfVars>>

\* what an action of one part leaves alone
outsideEgo == <<bankVars, flowVars, unitVars, queryVars, phase1Vars, pdfVars>>
outsideBank == <<egoVars, flowVars, unitVars, queryVars, phase1Vars, pdfVars>>
outsideFlow == <<egoVars, bankVars, unitVars, queryVars, phase1Vars, pdfVars>>
outsideUnit == <<egoVars, bankVars, flowVars, queryVars, phase1Vars, pdfVars>>
outsideQuery == <<egoVars, bankVars, flowVars, unitVars, phase1Vars, pdfVars>>
outsidePhase1 == <<egoVars, bankVars, flowVars, unitVars, queryVars, pdfVars>>
outsidePdf == <<egoVars, bankVars, flowVars, unitVars, queryVars, phase1Vars>>

\* ------------------------------------------------------------- helpers
EmptyFn == [x \in {} |-> TRUE]

PartialFns(D, R) == UNION {[S -> R] : S \in SUBSET D}

\* all functions f with domain D and f[d] \in opts[d]
RECURSIVE DepFns(_, _)
DepFns(D, opts) ==
  IF D = {} THEN {EmptyFn}
  ELSE LET d == CHOOSE x \in D : TRUE
       IN  {(d :> v) @@ f : v \in opts[d], f \in DepFns(D \ {d}, opts)}

RECURSIVE SumSeq(_)
SumSeq(s) == IF s = <<>> THEN 0 ELSE Head(s) + SumSeq(Tail(s))

\* the subsequence of s at the indices in keep, in order (Array.map + filter(non-null))
RECURSIVE KeepAt(_, _, _)
KeepAt(s, keep, i) ==
  IF i > Len(s) THEN <<>>
  ELSE (IF i \in keep THEN <<s[i]>> ELSE <<>>) \o KeepAt(s, keep, i + 1)

Persons == DOMAIN ego
Queries == 1..NumQueries

\* ------------------------------------------------- egoSearchTool.execute
\* a search result as the tool returns it: htmlContent is filled in later
NewResult(i) == [src |-> i, htmlContent |-> "undefined"]
NewArticle(i) == [src |-> i]

\* one query of negativeSearchResults: found = hasResults, results undefined
\* (modelled as <<>>) when the search returned nothing or threw
NewQueryResult(n) ==
  [found |-> n > 0, results |-> [i \in 1..n |-> NewResult(i)]]

\* the fraud-site entry: found only with at least one fetched article
NewFraudSite(n) ==
  [found |-> n > 0, articles |-> [i \in 1..n |-> NewArticle(i)]]

ToolSummary(fraudSite, neg) ==
  LET fraudHits == IF fraudSite.found THEN 1 ELSE 0
  IN  [hasNegativeInfo |-> (\E q \in Queries : neg[q].found) \/ fraudHits > 0,
       fraudHits |-> fraudHits]

EgoSearchResult(nArticles, counts) ==
  LET fraudSite == NewFraudSite(nArticles)
      neg == [q \in Queries |-> NewQueryResult(counts[q])]
  IN  [fraud |-> fraudSite, neg |-> neg, summary |-> ToolSummary(fraudSite, neg)]

\* shapes of one run: per person the number of fraud-site articles and of
\* results per query, MaxHits candidates at most in total
PersonShapes == [articles : 0..MaxHits, counts : [Queries -> 0..MaxHits]]
ShapeSize(sh) == sh.articles + SumSeq(sh.counts)

RECURSIVE Shapes(_, _)
Shapes(n, budget) ==
  IF n < 0 THEN {EmptyFn}
  ELSE UNION {{(n :> sh) @@ rest : rest \in Shapes(n - 1, budget - ShapeSize(sh))}
               : sh \in {s \in PersonShapes : ShapeSize(s) <= budget}}

\* Step 2 and Step 4 of the phase: the applicant's and the representatives' searches
EgoSearch ==
  /\ pc3 = "search"
  /\ \E n \in 0..MaxReps : \E shape \in Shapes(n, MaxHits) :
       /\ ego' = [p \in 0..n |-> EgoSearchResult(shape[p].articles, shape[p].counts)]
       /\ hits' = shape
  /\ pc3' = "stage1"
  /\ UNCHANGED <<stage1Results, stage1Err, fetched, stage2Results, stage2Err, report>>
  /\ UNCHANGED outsideEgo

\* ------------------------------------------------- analyzeStage1Snippets
HasResults(qr) == qr.found /\ Len(qr.results) > 0

QueriesWithResults(p) == {q \in Queries : HasResults(ego[p].neg[q])}

\* personsInfo is the empty string: nobody has a query with results
NoSnippets == \A p \in Persons : QueriesWithResults(p) = {}

Stage1NoSnippets == [p \in Persons |-> EmptyFn]

\* a catch block that rebuilds the applicant's queries only
Stage1FallbackApplicantOnly ==
  [p \in Persons |->
     IF p = 0
     THEN [q \in QueriesWithResults(p) |->
             [i \in 1..Len(ego[p].neg[q].results) |-> TRUE]]
     ELSE EmptyFn]

\* the catch block: every result of every query with results needs the full check
Stage1Fallback ==
  [p \in Persons |->
     [q \in QueriesWithResults(p) |->
        [i \in 1..Len(ego[p].neg[q].results) |-> TRUE]]]

\* what the model may answer: persons, queries and results may each be left
\* out; entries under an index the code never looks up are not modelled
Stage1PersonAnswers(p) ==
  UNION {DepFns(QS, [q \in QS |-> PartialFns(1..Len(ego[p].neg[q].results), BOOLEAN)])
           : QS \in SUBSET QueriesWithResults(p)}

Stage1Answers ==
  UNION {DepFns(PS, [p \in PS |-> Stage1PersonAnswers(p)]) : PS \in SUBSET Persons}

Stage1 ==
  /\ pc3 = "stage1"
  /\ \/ /\ NoSnippets
        /\ stage1Results' = Stage1NoSnippets
        /\ stage1Err' = FALSE
     \/ /\ ~NoSnippets
        /\ \E a \in Stage1Answers : stage1Results' = a
        /\ stage1Err' = FALSE
     \/ /\ ~NoSnippets
        /\ stage1Results' = Stage1Fallback
        /\ stage1Err' = TRUE
  /\ pc3' = "fetch"
  /\ UNCHANGED <<ego, hits, fetched, stage2Results, stage2Err, report>>
  /\ UNCHANGED outsideEgo

\* ------------------------------------------ fetchRelevantArticleContents
\* a fetch condition that also fetches what stage 1 said nothing about
NeedsFullCheckUnlessRejected(s1, p, q, i) ==
  ~(/\ p \in DOMAIN s1
    /\ q \in DOMAIN s1[p]
    /\ i \in DOMAIN s1[p][q]
    /\ ~s1[p][q][i])

\* resultAnalysis && resultAnalysis.needsFullCheck, through the three finds
NeedsFullCheck(s1, p, q, i) ==
  /\ p \in DOMAIN s1
  /\ q \in DOMAIN s1[p]
  /\ i \in DOMAIN s1[p][q]
  /\ s1[p][q][i]

ToFetch ==
  {c \in Persons \X Queries \X (1..MaxHits) :
     /\ c[3] <= Len(ego[c[1]].neg[c[2]].results)
     /\ NeedsFullCheck(stage1Results, c[1], c[2], c[3])}

\* fetchArticleContent: the page, or null on a non-200 status or a request error
FetchOutcomes == {"html", "null"}

\* a stage-1 call that is started but not awaited
Stage1Requested == pc3 \in {"stage1", "fetch"}

\* await analyzeStage1Snippets(...): the one call that triages every query of
\* every subject has returned
Stage1Returned == pc3 = "fetch"

FetchArticles ==
  /\ Stage1Returned
  /\ \E got \in [ToFetch -> FetchOutcomes] :
       ego' = [p \in Persons |->
                 [ego[p] EXCEPT !.neg =
                    [q \in Queries |->
                       [ego[p].neg[q] EXCEPT !.results =
                          [i \in 1..Len(ego[p].neg[q].results) |->
                             IF <<p, q, i>> \in ToFetch
                             THEN [ego[p].neg[q].results[i] EXCEPT
                                     !.htmlContent = got[<<p, q, i>>]]
                             ELSE ego[p].neg[q].results[i]]]]]]
  /\ fetched' = ToFetch
  /\ pc3' = "stage2"
  /\ UNCHANGED <<hits, stage1Results, stage1Err, stage2Results, stage2Err, report>>
  /\ UNCHANGED outsideEgo

\* ------------------------------------------------- analyzeStage2FullContent
\* z.boolean().optional(): true, false or left out
OptBool == {"true", "false", "undefined"}

\* one element of queries[].results of the stage-2 schema; hasName stands for
\* a non-empty extractedName
WebVerdicts ==
  [isRelevant : BOOLEAN, hasName : BOOLEAN, nameMatch : OptBool, isFraudRelated : OptBool]

\* one element of fraudSiteArticles of the stage-2 schema
FraudVerdicts == [isRelevant : BOOLEAN, nameMatch : BOOLEAN, isFraudRelated : BOOLEAN]

HasArticles(fraudSite) == fraudSite.found /\ Len(fraudSite.articles) > 0

\* the catch block of the stage-2 call
Stage2FallbackWeb ==
  [isRelevant |-> TRUE, hasName |-> FALSE, nameMatch |-> "undefined",
   isFraudRelated |-> "undefined"]

Stage2FallbackFraud == [isRelevant |-> TRUE, nameMatch |-> FALSE, isFraudRelated |-> TRUE]

Stage2Fallback ==
  [p \in Persons |->
     [fraudSiteArticles |->
        IF HasArticles(ego[p].fraud)
        THEN [i \in 1..Len(ego[p].fraud.articles) |-> Stage2FallbackFraud]
        ELSE EmptyFn,
      queries |->
        [q \in QueriesWithResults(p) |->
           [i \in 1..Len(ego[p].neg[q].results) |-> Stage2FallbackWeb]]]]

\* what the model may answer: any object of the schema; persons, queries,
\* results and articles may each be left out
Stage2QueryAnswers(p) ==
  UNION {DepFns(QS, [q \in QS |-> PartialFns(1..Len(ego[p].neg[q].results), WebVerdicts)])
           : QS \in SUBSET QueriesWithResults(p)}

Stage2ArticleAnswers(p) ==
  IF HasArticles(ego[p].fraud)
  THEN PartialFns(1..Len(ego[p].fraud.articles), FraudVerdicts)
  ELSE {EmptyFn}

Stage2PersonAnswers(p) ==
  {[fraudSiteArticles |-> fa, queries |-> qa] :
     fa \in Stage2ArticleAnswers(p), qa \in Stage2QueryAnswers(p)}

Stage2Answers ==
  UNION {DepFns(PS, [p \in PS |-> Stage2PersonAnswers(p)]) : PS \in SUBSET Persons}

\* ------------------------------------------- updateEgoSearchWithAnalysis
\* isStrictRelevant of a fraud-site article
IsStrictRelevant(analysis, i) ==
  /\ i \in DOMAIN analysis.fraudSiteArticles
  /\ analysis.fraudSiteArticles[i].isRelevant
  /\ analysis.fraudSiteArticles[i].nameMatch
  /\ analysis.fraudSiteArticles[i].isFraudRelated

\* passesStrict of a web-search result
PassesStrict(queryAnalysis, searchResult, i) ==
  LET hasAnalysis == i \in DOMAIN queryAnalysis
      hasContent == \/ searchResult.htmlContent = "html"
                    \/ (hasAnalysis /\ queryAnalysis[i].hasName)
  IN  /\ hasAnalysis
      /\ queryAnalysis[i].isRelevant
      /\ hasContent
      /\ queryAnalysis[i].nameMatch = "true"
      /\ queryAnalysis[i].isFraudRelated = "true"

UpdateFraudSite(fraudSite, analysis) ==
  IF ~HasArticles(fraudSite) THEN fraudSite
  ELSE LET relevantArticles ==
             KeepAt(fraudSite.articles,
                    {i \in 1..Len(fraudSite.articles) : IsStrictRelevant(analysis, i)}, 1)
       IN  [found |-> Len(relevantArticles) > 0, articles |-> relevantArticles]

\* a summary that does not count the fraud-site articles
NoFraudHits(fraudSite, analysis) == 0

TotalFraudHits(fraudSite, analysis) ==
  IF ~HasArticles(fraudSite) THEN 0
  ELSE Cardinality({i \in 1..Len(fraudSite.articles) : IsStrictRelevant(analysis, i)})

UpdateQueryResult(queryResult, analysis, q) ==
  IF ~HasResults(queryResult) THEN queryResult
  ELSE IF q \notin DOMAIN analysis.queries THEN queryResult
  ELSE LET relevantResults ==
             KeepAt(queryResult.results,
                    {i \in 1..Len(queryResult.results) :
                       PassesStrict(analysis.queries[q], queryResult.results[i], i)}, 1)
       IN  [found |-> Len(relevantResults) > 0, results |-> relevantResults]

UpdateEgoSearchWithAnalysis(egoSearchResult, analysis) ==
  LET totalFraudHits == TotalFraudHits(egoSearchResult.fraud, analysis)
      filteredNegativeResults ==
        [q \in Queries |-> UpdateQueryResult(egoSearchResult.neg[q], analysis, q)]
  IN  [fraud |-> UpdateFraudSite(egoSearchResult.fraud, analysis),
       neg |-> filteredNegativeResults,
       summary |->
         [hasNegativeInfo |->
            (\E q \in Queries : filteredNegativeResults[q].found) \/ totalFraudHits > 0,
          fraudHits |-> totalFraudHits]]

\* "エゴサーチ結果を更新": only the persons the analysis has an entry for
UpdateAll(analysisResults) ==
  [p \in Persons |->
     IF p \in DOMAIN analysisResults
     THEN UpdateEgoSearchWithAnalysis(ego[p], analysisResults[p])
     ELSE ego[p]]

\* ---------------------------------------- 申込者エゴサーチサマリー (the report)
\* negativeURLs: the fraud site's URL and every result of every found query,
\* collected only when summary.hasNegativeInfo
ApplicantSummary(applicantEgoSearch) ==
  LET hasNeg == applicantEgoSearch.summary.hasNegativeInfo
  IN  [negativeInfo |-> hasNeg,
       fraudSite |-> hasNeg /\ applicantEgoSearch.fraud.found,
       web |-> IF hasNeg
               THEN UNION {{<<q, applicantEgoSearch.neg[q].results[i].src>> :
                              i \in 1..Len(applicantEgoSearch.neg[q].results)} :
                           q \in {x \in Queries : HasResults(applicantEgoSearch.neg[x])}}
               ELSE {}]

\* the stage-2 call, the update of every person's search result and the
\* summary of the phase: one synchronous stretch after the call returns
Stage2Finish(analysisResults, threw) ==
  /\ stage2Results' = analysisResults
  /\ stage2Err' = threw
  /\ LET updated == UpdateAll(analysisResults)
     IN  /\ ego' = updated
         /\ report' = ApplicantSummary(updated[0])

Stage2 ==
  /\ pc3 = "stage2"
  /\ \/ \E a \in Stage2Answers : Stage2Finish(a, FALSE)
     \/ Stage2Finish(Stage2Fallback, TRUE)
  /\ pc3' = "done"
  /\ UNCHANGED <<hits, stage1Results, stage1Err, fetched>>
  /\ UNCHANGED outsideEgo

\* ----------------------------------- one negative query, names and URLs kept
\* the query returns at most MaxResults results
MaxResults == 1

\* the applicant's name, character by character
SubjectName == <<"k1", "k2">>

\* extractedName of a stage-2 answer: left out, the subject's name, or a name
\* with another second character
ExtractedNames == {<<>>, <<"k1", "k2">>, <<"k1", "k3">>}

\* where a result's link points: "sns" is one of instagram.com, twitter.com,
\* x.com, facebook.com, threads.net; "news" is any other site
Domains == {"news", "sns"}

\* performSerperSearch and the mapping of egoSearchTool: every organic result
\* becomes {title, url, snippet, htmlContent: undefined}
SearchedQuery(links) ==
  [found |-> Len(links) > 0,
   results |-> [i \in 1..Len(links) |->
                  [src |-> i, url |-> links[i], htmlContent |-> "undefined"]]]

QuerySearch ==
  /\ pcQuery = "search"
  /\ \E n \in 0..MaxResults : \E links \in [1..n -> Domains] :
       negativeResult' = SearchedQuery(links)
  /\ pcQuery' = "stage1"
  /\ UNCHANGED <<triage, verdicts>>
  /\ UNCHANGED outsideQuery

\* analyzeStage1Snippets for the query: no call without results, else any
\* answer of the schema, or needsFullCheck=true for every result on an error
QueryStage1 ==
  /\ pcQuery = "stage1"
  /\ IF ~HasResults(negativeResult)
     THEN triage' = EmptyFn
     ELSE \/ \E a \in PartialFns(1..Len(negativeResult.results), BOOLEAN) : triage' = a
          \/ triage' = [i \in 1..Len(negativeResult.results) |-> TRUE]
  /\ pcQuery' = "fetch"
  /\ UNCHANGED <<negativeResult, verdicts>>
  /\ UNCHANGED outsideQuery

\* fetchRelevantArticleContents for the query
QueryFetch ==
  /\ pcQuery = "fetch"
  /\ LET toFetch == {i \in DOMAIN triage : triage[i]} IN
       \E got \in [toFetch -> FetchOutcomes] :
         negativeResult' =
           [negativeResult EXCEPT !.results =
              [i \in 1..Len(negativeResult.results) |->
                 IF i \in toFetch
                 THEN [negativeResult.results[i] EXCEPT !.htmlContent = got[i]]
                 ELSE negativeResult.results[i]]]
  /\ pcQuery' = "stage2"
  /\ UNCHANGED <<triage, verdicts>>
  /\ UNCHANGED outsideQuery

\* one element of queries[].results of the stage-2 schema, extractedName kept
NamedVerdicts ==
  [isRelevant : BOOLEAN, extractedName : ExtractedNames, nameMatch : OptBool,
   isFraudRelated : OptBool]

\* the catch block of the stage-2 call, for one web result
NamedFallback ==
  [isRelevant |-> TRUE, extractedName |-> <<>>, nameMatch |-> "undefined",
   isFraudRelated |-> "undefined"]

\* !!resultAnalysis.extractedName
AsWebVerdict(v) ==
  [isRelevant |-> v.isRelevant, hasName |-> v.extractedName # <<>>,
   nameMatch |-> v.nameMatch, isFraudRelated |-> v.isFraudRelated]

\* analyzeStage2FullContent and updateEgoSearchWithAnalysis for the query
QueryStage2 ==
  /\ pcQuery = "stage2"
  /\ IF ~HasResults(negativeResult)
     THEN verdicts' = EmptyFn
     ELSE \/ verdicts' = EmptyFn
          \/ \E a \in PartialFns(1..Len(negativeResult.results), NamedVerdicts) :
               verdicts' = (1 :> a)
          \/ verdicts' = (1 :> [i \in 1..Len(negativeResult.results) |-> NamedFallback])
  /\ negativeResult' =
       UpdateQueryResult(negativeResult,
                         [queries |-> [q \in DOMAIN verdicts' |->
                                         [i \in DOMAIN verdicts'[q] |->
                                            AsWebVerdict(verdicts'[q][i])]]],
                         1)
  /\ pcQuery' = "done"
  /\ UNCHANGED triage
  /\ UNCHANGED outsideQuery

\* =================================================== phase2BankStatementStep
\* months of the review window that are modelled (the code reads three:
\* 先々月, 先月, 今月); month m of the model is the m-th of them
NumMonths == 2
\* at most MaxTx inflows of the counterparty are printed in the main passbook
MaxTx == 2
\* at most MaxCompanies rows in 担保情報
MaxCompanies == 1
\* at most MaxDetections entries in one factoringCompaniesDetected answer
MaxDetections == 1

Months == 1..NumMonths
TxAmounts == {2000, 3000}
ExpectedAmounts == {0, 5000}
\* null and undefined
Null == [null |-> TRUE]

\* strings are sequences of characters; a.includes(b)
Includes(a, b) == \E k \in 0..(Len(a) - Len(b)) : SubSeq(a, k + 1, k + Len(b)) = b

\* 会社名 of a 担保情報 row: "" when the field is empty
CompanyNames == {<<>>, <<"K">>}
\* companyName and payerOrPayee of a detection
DetectedNames == {<<"L">>, <<"K", "L">>}
PayeeNames == {<<"L">>, <<"J", "C", "B">>}

\* the ASCII entries of excludedCompanies (セゾン and アメックス cannot occur in
\* the names above)
excludedCompanies ==
  {<<"S", "M", "B", "C">>, <<"J", "C">>, <<"I", "B">>, <<"A", "P">>, <<"R", "K", "S">>}

\* the inflows of the passbook in date order; a transaction is identified by
\* its place no in the passbook (its date and payer name) and carries its amount
Ledgers == UNION {[1..n -> TxAmounts] : n \in 0..MaxTx}
Tx(l, k) == [no |-> k, amount |-> l[k]]

\* collaterals: per row the company name and the expected inflow of each month
CollateralRows == [company : CompanyNames, expected : [Months -> ExpectedAmounts]]
CollateralLists == UNION {[1..n -> CollateralRows] : n \in 0..MaxCompanies}

\* ------------------------------------------ the answers of generateObject
\* two of the seven values of matchType: 単独一致 ("single") and 不一致 ("unmatched")
MatchTypes == {"single", "unmatched"}

\* the sequences of transactions of the passbook, in passbook order
RECURSIVE TxSubSeqs(_, _)
TxSubSeqs(l, k) ==
  IF k > Len(l) THEN {<<>>}
  ELSE LET rest == TxSubSeqs(l, k + 1)
       IN  rest \cup {<<Tx(l, k)>> \o r : r \in rest}

RECURSIVE SumAmounts(_)
SumAmounts(txs) == IF txs = <<>> THEN 0 ELSE Head(txs).amount + SumAmounts(Tail(txs))

\* one element of monthlyAnalysis for month m of row c: matched, matchType and
\* matchedTransactions are whatever the model answers
MonthlyAnalyses(c, m, l) ==
  {[month |-> m, expectedAmount |-> c.expected[m], totalMatched |-> SumAmounts(txs),
    matched |-> b, matchType |-> t, matchedTransactions |-> txs] :
     b \in BOOLEAN, t \in MatchTypes, txs \in TxSubSeqs(l, 1)}

CollateralMatch(c, l) ==
  {[company |-> c.company, allTransactions |-> [k \in 1..Len(l) |-> Tx(l, k)],
    monthlyAnalysis |-> ma] :
     ma \in DepFns(Months, [m \in Months |-> MonthlyAnalyses(c, m, l)])}

CollateralMatches(cols, l) ==
  UNION {DepFns(1..n, [i \in 1..n |-> CollateralMatch(cols[i], l)]) : n \in 0..Len(cols)}

Detections == [companyName : DetectedNames, payerOrPayee : PayeeNames]
DetectionLists == UNION {[1..n -> Detections] : n \in 0..MaxDetections}

MainAnswers(cols, l) ==
  [collateralMatches : CollateralMatches(cols, l),
   factoringCompaniesDetected : DetectionLists]

SubAnswers == [factoringCompaniesDetected : DetectionLists]

\* ---------------------------------------------- step 4 and the return value
\* isCollateral and isExcluded of the filter on factoringCompaniesDetected
IsCollateral(f, collateralCompanyNames) ==
  \E name \in collateralCompanyNames :
    Includes(f.companyName, name) \/ Includes(name, f.companyName)

IsExcluded(f) ==
  \E excluded \in excludedCompanies :
    Includes(f.companyName, excluded) \/ Includes(f.payerOrPayee, excluded)

Filtered(analysis, collateralCompanyNames) ==
  IF analysis = Null THEN <<>>
  ELSE SelectSeq(analysis.factoringCompaniesDetected,
                 LAMBDA f : ~IsCollateral(f, collateralCompanyNames) /\ ~IsExcluded(f))

FactoringCompaniesDetected(mba, sba, cols) ==
  LET collateralCompanyNames == {cols[i].company : i \in 1..Len(cols)}
      found == Filtered(mba, collateralCompanyNames) \o Filtered(sba, collateralCompanyNames)
  IN  [i \in 1..Len(found) |-> [companyName |-> found[i].companyName]]

\* monthlyResults: the model's monthlyAnalysis, field by field
MonthlyResult(ma) ==
  [month |-> ma.month, expected |-> ma.expectedAmount, actual |-> ma.totalMatched,
   matched |-> ma.matched, matchType |-> ma.matchType,
   matchedTransactions |-> ma.matchedTransactions]

Phase2Results(mba, sba, cols) ==
  [mainBankAnalysis |->
     IF mba = Null THEN Null
     ELSE [collateralMatches |->
             [i \in 1..Len(mba.collateralMatches) |->
                [company |-> mba.collateralMatches[i].company,
                 allTransactions |-> mba.collateralMatches[i].allTransactions,
                 monthlyResults |->
                   [m \in DOMAIN mba.collateralMatches[i].monthlyAnalysis |->
                      MonthlyResult(mba.collateralMatches[i].monthlyAnalysis[m])]]]],
   subBankAnalysis |-> IF sba = Null THEN Null ELSE [riskDetection |-> TRUE],
   factoringCompanies |-> FactoringCompaniesDetected(mba, sba, cols)]

\* the catch block: the step throws "Phase 2 処理失敗" and returns nothing
Phase2Fails(why) ==
  /\ pc2' = "failed"
  /\ phase2Error' = why

Phase2Returns(mba, sba, cols) ==
  /\ pc2' = "done"
  /\ phase2Results' = Phase2Results(mba, sba, cols)

\* step 1: the OCR tool; the step throws unless ocrResult.success
Ocr ==
  /\ pc2 = "ocr"
  /\ \/ /\ ocrResult' = [success |-> FALSE, main |-> FALSE, sub |-> FALSE]
        /\ Phase2Fails("ocr")
        /\ UNCHANGED <<ledger, phase2Results>>
     \/ \E m \in BOOLEAN, s \in BOOLEAN, l \in Ledgers :
          /\ ~m => l = <<>>
          /\ ocrResult' = [success |-> TRUE, main |-> m, sub |-> s]
          /\ ledger' = l
          /\ IF m THEN pc2' = "kintone" /\ UNCHANGED phase2Results
             ELSE IF s THEN pc2' = "sub" /\ UNCHANGED phase2Results
             ELSE Phase2Returns(Null, Null, <<>>)
          /\ UNCHANGED phase2Error
  /\ UNCHANGED <<collaterals, mainBankAnalysis, subBankAnalysis>>
  /\ UNCHANGED outsideBank

\* step 2, first half: the record of the record store and its 担保情報
FetchCollaterals ==
  /\ pc2 = "kintone"
  /\ \/ /\ Phase2Fails("kintone")
        /\ UNCHANGED collaterals
     \/ /\ \E cols \in CollateralLists : collaterals' = cols
        /\ pc2' = "main"
        /\ UNCHANGED phase2Error
  /\ UNCHANGED <<ocrResult, ledger, mainBankAnalysis, subBankAnalysis, phase2Results>>
  /\ UNCHANGED outsideBank

\* step 2, second half: the main-passbook generateObject call
AnalyzeMainBank ==
  /\ pc2 = "main"
  /\ \/ /\ Phase2Fails("mainBank")
        /\ UNCHANGED <<mainBankAnalysis, phase2Results>>
     \/ \E a \in MainAnswers(collaterals, ledger) :
          /\ mainBankAnalysis' = a
          /\ IF ocrResult.sub THEN pc2' = "sub" /\ UNCHANGED phase2Results
             ELSE Phase2Returns(a, Null, collaterals)
          /\ UNCHANGED phase2Error
  /\ UNCHANGED <<ocrResult, ledger, collaterals, subBankAnalysis>>
  /\ UNCHANGED outsideBank

\* step 3: the sub-passbook generateObject call, then step 4 and the return
AnalyzeSubBank ==
  /\ pc2 = "sub"
  /\ \/ /\ Phase2Fails("subBank")
        /\ UNCHANGED <<subBankAnalysis, phase2Results>>
     \/ \E a \in SubAnswers :
          /\ subBankAnalysis' = a
          /\ Phase2Returns(mainBankAnalysis, a, collaterals)
          /\ UNCHANGED phase2Error
  /\ UNCHANGED <<ocrResult, ledger, collaterals, mainBankAnalysis>>
  /\ UNCHANGED outsideBank

\* ===================================================== integratedWorkflow
\* the steps of the parallel block: 1 is phase1-purchase-collateral, 2 is
\* phase2-bank-statement, 3 is phase3-verification
Phases == 1..3

\* at most MaxLenderTx entries in factoringCompanies of phase 2
MaxLenderTx == 3

\* the recordId of the run
TheRecordId == [id |-> "r"]

\* an array, as an object of its own
Arr(s) == [items |-> s]

\* what phase 1 returns: it throws without an invoice, so purchaseDocuments
\* is never empty; documents and findings are numbered
Phase1Values ==
  {[recordId |-> TheRecordId,
    phase1Results |->
      [purchaseDocuments |-> Arr(<<1>>),
       collateralDocuments |-> Arr([i \in 1..n |-> i]),
       purchaseVerification |-> [kintoneMatch |-> m],
       collateralExtraction |-> [findings |-> [i \in 1..f |-> i]]]] :
     n \in 0..1, m \in {"match", "mismatch"}, f \in 0..1}

\* one entry of factoringCompanies: a lender, the day of the transaction, its
\* amount and its direction ("in" is 入金, "out" is 出金)
LenderTxs ==
  {[companyName |-> "L", date |-> d, amount |-> 100, transactionType |-> "in"] : d \in {1, 3, 5}}
  \cup
  {[companyName |-> "L", date |-> d, amount |-> 105, transactionType |-> "out"] : d \in {1, 3, 5}}

LenderTxLists == UNION {[1..n -> LenderTxs] : n \in 0..MaxLenderTx}

\* what phase 2 returns: mainBankAnalysis is undefined (the record has no such
\* field) without a main passbook
Phase2Values ==
  {[recordId |-> TheRecordId,
    phase2Results |-> [crossBankTransfers |-> <<>>, factoringCompanies |-> fc]] :
     fc \in LenderTxLists}
  \cup
  {[recordId |-> TheRecordId,
    phase2Results |->
      [mainBankAnalysis |-> [collateralMatches |-> <<>>, riskDetection |-> [gambling |-> <<>>]],
       crossBankTransfers |-> <<>>, factoringCompanies |-> fc]] :
     fc \in LenderTxLists}

\* what phase 3 returns: 本人確認 (identity), 申込者エゴサーチ (egoSearch),
\* 企業実在性 (companies) and 代表者リスク (representatives)
Phase3Values ==
  {[recordId |-> TheRecordId,
    phase3Results |->
      [identity |-> [documentType |-> t],
       egoSearch |-> [negativeInfo |-> FALSE],
       companies |-> [applicant |-> "company"],
       representatives |-> [searched |-> 0]]] :
     t \in {"none", "license"}}

PhaseValues(i) ==
  IF i = 1 THEN Phase1Values ELSE IF i = 2 THEN Phase2Values ELSE Phase3Values

\* ----------------------------- createWorkflow(...).parallel([...]).then(...)
\* a block that would let the first step that succeeded start the next step
AnySucceeded(status) == \E i \in Phases : status[i] = "success"

\* a block that would go on to the next step whatever its steps ended with
FailuresIgnored(status) == TRUE

Settled(status) == \A i \in Phases : status[i] \in {"success", "failed"}

NoneFailed(status) == \A i \in Phases : status[i] # "failed"

\* a block that would hand a step what the steps listed before it returned
ChainedInput(i, data) ==
  [recordId |-> TheRecordId,
   phase1Results |-> IF i > 1 THEN data[1] ELSE Null]

\* every step of the parallel block is started with the input of the workflow
StepInput(i, data) == [recordId |-> TheRecordId]

\* the run is created and started: the three steps of the block start together
StartRun ==
  /\ runStatus = "pending"
  /\ runStatus' = "running"
  /\ phaseStatus' = [i \in Phases |-> "running"]
  /\ stepInput' = [i \in Phases |-> StepInput(i, phaseData)]
  /\ UNCHANGED <<phaseData, runResult, pc4, inputData, inputDataForAI, fullPrompt,
                 phase4Error>>
  /\ UNCHANGED outsideFlow

\* a step of the block ends; when it is the last one, the block either fails
\* the run or hands the three results, keyed by step id, to phase 4
PhaseEnds(i, status, value) ==
  /\ runStatus = "running"
  /\ phaseStatus[i] = "running"
  /\ phaseStatus' = [phaseStatus EXCEPT ![i] = status]
  /\ phaseData' = [phaseData EXCEPT ![i] = value]
  /\ IF ~Settled(phaseStatus') THEN UNCHANGED <<runStatus, pc4, inputData>>
     ELSE IF NoneFailed(phaseStatus')
          THEN /\ pc4' = "kintone"
               /\ inputData' = phaseData'
               /\ UNCHANGED runStatus
          ELSE /\ runStatus' = "failed"
               /\ UNCHANGED <<pc4, inputData>>
  /\ UNCHANGED <<runResult, inputDataForAI, fullPrompt, stepInput, phase4Error>>
  /\ UNCHANGED outsideFlow

\* phase 1 returns, or throws "Phase 1 処理失敗"
Phase1Ends ==
  \/ PhaseEnds(1, "failed", Null)
  \/ \E v \in Phase1Values : PhaseEnds(1, "success", v)

\* phase 2 returns, or throws "Phase 2 処理失敗"
Phase2Ends ==
  \/ PhaseEnds(2, "failed", Null)
  \/ \E v \in Phase2Values : PhaseEnds(2, "success", v)

\* phase 3 returns, or one of its awaited calls throws
Phase3Ends ==
  \/ PhaseEnds(3, "failed", Null)
  \/ \E v \in Phase3Values : PhaseEnds(3, "success", v)

\* ------------------------------------------- phase4ReportGenerationStep
\* o?.f: undefined when o is undefined or has no field f
Get(o, f) == IF o = Null THEN Null ELSE IF f \in DOMAIN o THEN o[f] ELSE Null

\* a || b, for operands that are objects or undefined
Or(a, b) == IF a = Null THEN b ELSE a

\* recordId of phase 4: the first one that an upstream result carries
RecordId(data) ==
  Or(Get(data[1], "recordId"), Or(Get(data[2], "recordId"), Get(data[3], "recordId")))

\* phaseNResults of phase 4
PhaseResults(data, i, f) == Or(Get(data[i], f), data[i])

\* the placeholders of buildInputData
NoPurchaseVerification == [kintoneMatch |-> "mismatch"]
NoCollateralExtraction == [findings |-> <<>>]
NoMainBankAnalysis == [collateralMatches |-> <<>>, riskDetection |-> [gambling |-> <<>>]]
NoFactoringAnalysis ==
  [allTransactions |-> <<>>, companyAnalysis |-> <<>>, alerts |-> <<>>,
   summary |-> [totalCompanies |-> 0, activeContracts |-> 0, completedContracts |-> 0,
                hasSimultaneousContracts |-> FALSE]]
NoIdentity == [documentType |-> "none"]
NoEgoSearch == [negativeInfo |-> FALSE]
NoCompanies == [applicant |-> ""]
NoRepresentatives == [searched |-> 0]

\* a buildInputData that passes the phase-2 results on as they are
BuildPhase2Unguarded(phase2Res) ==
  [mainBankAnalysis |-> Get(phase2Res, "mainBankAnalysis"),
   factoringAnalysis |-> Get(phase2Res, "factoringAnalysis")]

BuildPhase1(phase1Res) ==
  [purchaseDocuments |-> Or(Get(phase1Res, "purchaseDocuments"), Arr(<<>>)),
   collateralDocuments |-> Or(Get(phase1Res, "collateralDocuments"), Arr(<<>>)),
   purchaseVerification |->
     Or(Get(phase1Res, "purchaseVerification"), NoPurchaseVerification),
   collateralExtraction |->
     Or(Get(phase1Res, "collateralExtraction"), NoCollateralExtraction)]

BuildPhase2(phase2Res) ==
  [mainBankAnalysis |-> Or(Get(phase2Res, "mainBankAnalysis"), NoMainBankAnalysis),
   factoringAnalysis |-> Or(Get(phase2Res, "factoringAnalysis"), NoFactoringAnalysis)]

BuildPhase3(phase3Res) ==
  [identity |-> Or(Get(phase3Res, "identity"), NoIdentity),
   egoSearch |-> Or(Get(phase3Res, "egoSearch"), NoEgoSearch),
   companies |-> Or(Get(phase3Res, "companies"), NoCompanies),
   representatives |-> Or(Get(phase3Res, "representatives"), NoRepresentatives)]

BuildInputData(recordId, phase1Res, phase2Res, phase3Res, kintoneData) ==
  [recordId |-> recordId,
   phase1 |-> BuildPhase1(phase1Res),
   phase2 |-> BuildPhase2(phase2Res),
   phase3 |-> BuildPhase3(phase3Res),
   kintone |-> kintoneData]

\* formatPhase2Data, 他社ファクタリング取引分析: one row per company of
\* factoringAnalysis.companyAnalysis when summary.totalCompanies > 0, else 検出なし
FormatFactoring(phase2) ==
  LET factoringAnalysis == phase2.factoringAnalysis IN
    IF factoringAnalysis.summary.totalCompanies > 0
    THEN [detected |-> TRUE,
          rows |-> [k \in DOMAIN factoringAnalysis.companyAnalysis |->
                      [companyName |-> factoringAnalysis.companyAnalysis[k].companyName,
                       actualStatus |-> factoringAnalysis.companyAnalysis[k].actualStatus]]]
    ELSE [detected |-> FALSE, rows |-> <<>>]

BuildFullPrompt(forAI) == [factoring |-> FormatFactoring(forAI.phase2)]

Phase4Fails(why) ==
  /\ pc4' = "failed"
  /\ phase4Error' = why
  /\ runStatus' = "failed"

\* step 1 to step 3: the record of the record store, then buildInputData; the
\* tool finds no record when no upstream result carries a recordId
Phase4Kintone ==
  /\ pc4 = "kintone"
  /\ \/ /\ Phase4Fails("kintone")
        /\ UNCHANGED inputDataForAI
     \/ /\ RecordId(inputData) # Null
        /\ inputDataForAI' =
             BuildInputData(RecordId(inputData),
                            PhaseResults(inputData, 1, "phase1Results"),
                            PhaseResults(inputData, 2, "phase2Results"),
                            PhaseResults(inputData, 3, "phase3Results"),
                            [record |-> RecordId(inputData)])
        /\ pc4' = "generate"
        /\ UNCHANGED <<phase4Error, runStatus>>
  /\ UNCHANGED <<phaseStatus, phaseData, runResult, inputData, fullPrompt, stepInput>>
  /\ UNCHANGED outsideFlow

\* step 4: generateText, then the value the step (and the run) returns
Phase4Generate ==
  /\ pc4 = "generate"
  /\ fullPrompt' = BuildFullPrompt(inputDataForAI)
  /\ \/ /\ Phase4Fails("generateText")
        /\ UNCHANGED runResult
     \/ /\ pc4' = "done"
        /\ runStatus' = "success"
        /\ runResult' =
             [recordId |-> RecordId(inputData),
              phase1Results |-> PhaseResults(inputData, 1, "phase1Results"),
              phase2Results |-> PhaseResults(inputData, 2, "phase2Results"),
              phase3Results |-> PhaseResults(inputData, 3, "phase3Results"),
              report |-> "html"]
        /\ UNCHANGED phase4Error
  /\ UNCHANGED <<phaseStatus, phaseData, inputData, inputDataForAI, stepInput>>
  /\ UNCHANGED outsideFlow

\* ================================================ the tools, one call at a time
\* at most MaxPurchaseFiles files in the purchase field of the record
MaxPurchaseFiles == 2
\* at most MaxCollateralFiles files in the collateral field
MaxCollateralFiles == 1
\* at most MaxIdentityFiles files in the identity field
MaxIdentityFiles == 2
\* at most MaxCollateralRows rows of the 担保情報 table carry a company name
MaxCollateralRows == 2
\* companyAnalysis.companies of the answer has at most MaxAnswers entries
MaxAnswers == 2

ContentTypes == {"pdf", "image"}

\* the files of one field: file.name and file.contentType
FileLists(field, max) ==
  UNION {[1..n -> {[name |-> <<field, k>>, contentType |-> t] :
                     k \in 1..max, t \in ContentTypes}] : n \in 0..max}

Attachments(field, max) ==
  {fs \in FileLists(field, max) : \A i \in DOMAIN fs : fs[i].name = <<field, i>>}

Names(fs) == {fs[i].name : i \in DOMAIN fs}

NoAttachment == [purchase |-> <<>>, collateral |-> <<>>, identity |-> <<>>]

SearchOutcomes == {"error", "nokey", "empty", "hits"}

\* record: the record lookup; serves: the files file.json delivers; reads: the
\* files the OCR reads; extracts: the documents generateObject answers for;
\* search: what the search backend does with each query
Quiet == [record |-> "found", serves |-> {}, reads |-> {}, extracts |-> {},
          search |-> [q \in Queries |-> "empty"]]

FileBackends(names) ==
  {[Quiet EXCEPT !.serves = sv, !.reads = rd, !.extracts = ex] :
     sv \in SUBSET names, rd \in SUBSET names, ex \in SUBSET names}

\* only a file that was delivered is read, and only its document is classified
Backends(names) ==
  {b \in FileBackends(names) : b.reads \subseteq b.serves /\ b.extracts \subseteq b.serves}

RecordFailures == {"none", "unreachable"}

\* ----------------------------------- googleVisionPurchaseCollateralOcrTool
OcrFailure(why) ==
  [success |-> FALSE, purchaseDocuments |-> <<>>, collateralDocuments |-> <<>>,
   error |-> why]

\* one pass of the loop of processFiles after the download: a PDF none of
\* whose pages could be read has pageCount 0, an image that could not be read
\* keeps pageCount 1; both keep a text that says so
OcrDocument(file, readable) ==
  [fileName |-> file.name,
   text |-> IF readable THEN "text" ELSE "error",
   pageCount |-> IF readable \/ file.contentType = "image" THEN 1 ELSE 0]

\* what a catch block of classifyAndExtractInfo that kept a type would return
ClassifyCatchKeepsType == [documentType |-> "invoice", extractedFacts |-> {}]

\* the catch block of classifyAndExtractInfo (分類不能)
ClassifyCatch == [documentType |-> "unclassifiable", extractedFacts |-> {}]

\* result.object of the generateObject call of classifyAndExtractInfo
ClassifierAnswers ==
  {[documentType |-> "invoice", extractedFacts |-> {"amount"}],
   [documentType |-> "registry", extractedFacts |-> {"capital"}],
   [documentType |-> "registry", extractedFacts |-> {}]}

ClassifyAndExtractInfo(document) ==
  IF document.fileName \in backend.extracts THEN ClassifierAnswers ELSE {ClassifyCatch}

Classified(document, classification) ==
  [fileName |-> document.fileName, text |-> document.text,
   pageCount |-> document.pageCount,
   documentType |-> classification.documentType,
   extractedFacts |-> classification.extractedFacts]

Fields == {"purchase", "collateral"}

\* execute up to the two calls of processFiles
StartOcr ==
  /\ pcUnit = "idle"
  /\ \/ /\ pcUnit' = "threw"
        /\ backend' = [Quiet EXCEPT !.record = "unconfigured"]
        /\ UNCHANGED <<attached, ocrOutput>>
     \/ \E why \in RecordFailures :
          /\ backend' = [Quiet EXCEPT !.record = why]
          /\ ocrOutput' = OcrFailure(why)
          /\ pcUnit' = "done"
          /\ UNCHANGED attached
     \/ \E p \in Attachments("p", MaxPurchaseFiles),
           c \in Attachments("c", MaxCollateralFiles) :
          \E b \in Backends(Names(p) \cup Names(c)) :
            /\ attached' = [attached EXCEPT !.purchase = p, !.collateral = c]
            /\ backend' = b
            /\ pcUnit' = "ocr"
            /\ UNCHANGED ocrOutput
  /\ UNCHANGED <<ocrResults, classified, identityDocuments, identityOutput,
                 identityResult, identitySummary, negativeSearchResults,
                 allCompanies, companySearchResult, companyVerificationResults>>
  /\ UNCHANGED outsideUnit

\* one pass of the loop of processFiles: the download is outside every try of
\* the loop, so its error rejects Promise.all and lands in the catch of execute
ProcessFile(field) ==
  /\ pcUnit = "ocr"
  /\ Len(ocrResults[field]) < Len(attached[field])
  /\ LET file == attached[field][Len(ocrResults[field]) + 1] IN
       IF file.name \in backend.serves
       THEN /\ ocrResults' = [ocrResults EXCEPT
                 ![field] = Append(@, OcrDocument(file, file.name \in backend.reads))]
            /\ UNCHANGED <<pcUnit, ocrOutput>>
       ELSE /\ ocrOutput' = OcrFailure("exception")
            /\ pcUnit' = "done"
            /\ UNCHANGED ocrResults
  /\ UNCHANGED <<attached, backend, classified, identityDocuments, identityOutput,
                 identityResult, identitySummary, negativeSearchResults,
                 allCompanies, companySearchResult, companyVerificationResults>>
  /\ UNCHANGED outsideUnit

ProcessFiles == \E field \in Fields : ProcessFile(field)

\* Promise.all of the two loops is fulfilled
OcrJoined ==
  /\ pcUnit = "ocr"
  /\ \A field \in Fields : Len(ocrResults[field]) = Len(attached[field])
  /\ pcUnit' = "classify"
  /\ classified' = [field \in Fields |-> [i \in DOMAIN ocrResults[field] |-> Null]]
  /\ UNCHANGED <<attached, backend, ocrResults, ocrOutput, identityDocuments,
                 identityOutput, identityResult, identitySummary,
                 negativeSearchResults, allCompanies, companySearchResult,
                 companyVerificationResults>>
  /\ UNCHANGED outsideUnit

\* one callback of the two Promise.all(....map(...)) of step 5
Classify ==
  /\ pcUnit = "classify"
  /\ \E field \in Fields : \E i \in DOMAIN classified[field] :
       /\ classified[field][i] = Null
       /\ \E classification \in ClassifyAndExtractInfo(ocrResults[field][i]) :
            classified' = [classified EXCEPT
               ![field][i] = Classified(ocrResults[field][i], classification)]
  /\ UNCHANGED <<pcUnit, attached, backend, ocrResults, ocrOutput, identityDocuments,
                 identityOutput, identityResult, identitySummary,
                 negativeSearchResults, allCompanies, companySearchResult,
                 companyVerificationResults>>
  /\ UNCHANGED outsideUnit

OcrReturns ==
  /\ pcUnit = "classify"
  /\ \A field \in Fields : \A i \in DOMAIN classified[field] : classified[field][i] # Null
  /\ ocrOutput' = [success |-> TRUE,
                   purchaseDocuments |-> classified["purchase"],
                   collateralDocuments |-> classified["collateral"],
                   error |-> "none"]
  /\ pcUnit' = "done"
  /\ UNCHANGED <<attached, backend, ocrResults, classified, identityDocuments,
                 identityOutput, identityResult, identitySummary,
                 negativeSearchResults, allCompanies, companySearchResult,
                 companyVerificationResults>>
  /\ UNCHANGED outsideUnit

\* ------------------------------------------ processFiles, one PDF file
\* the PDF has at most MaxPages pages
MaxPages == 12
\* maxPagesPerFile of the call: a small limit and the default
PageLimits == {3, 20}
\* const batchSize = 5
batchSize == 5

\* how the first request (pages: [1]) ends: with totalPages in the response,
\* without it, or with an error
FirstAnswers == {"totalPages", "missing", "error"}

\* pages: the pages of the file; hiccups: the pages whose single-page probe
\* throws something else than 'Invalid pages'
Pdfs ==
  [pages : 1..MaxPages, maxPagesPerFile : PageLimits, first : FirstAnswers,
   hiccups : {{}, {1}, {11}}]

RECURSIVE Probe(_, _, _)
\* for (testPage = 1; testPage <= maxPagesPerFile; testPage += 10)
Probe(file, testPage, count) ==
  IF testPage > file.maxPagesPerFile THEN count
  ELSE IF testPage > file.pages THEN count
  ELSE IF testPage \in file.hiccups THEN Probe(file, testPage + 10, count)
  ELSE Probe(file, testPage + 10, testPage)

RECURSIVE Refine(_, _, _)
\* for (testPage = actualPageCount - 9; testPage <= actualPageCount + 10; testPage++)
Refine(file, testPage, count) ==
  IF testPage > count + 10 THEN count
  ELSE IF testPage < 1 THEN Refine(file, testPage + 1, count)
  ELSE IF testPage > file.pages THEN count
  ELSE IF testPage \in file.hiccups THEN Refine(file, testPage + 1, count)
  ELSE Refine(file, testPage + 1, testPage)

\* actualPageCount after the try block of the page-count check
CountedPages(file) ==
  IF file.first = "totalPages" THEN file.pages
  ELSE IF file.first = "error" THEN file.maxPagesPerFile
  ELSE LET stepped == Probe(file, 1, 0)
       IN  IF stepped > 1 THEN Refine(file, stepped - 9, stepped) ELSE stepped

Min(a, b) == IF a < b THEN a ELSE b

\* Math.min(actualPageCount, maxPagesPerFile)
PagesToProcess(file, count) == Min(count, file.maxPagesPerFile)

\* Math.ceil(pagesToProcess / batchSize)
NumBatches(pagesToProcess) == (pagesToProcess + batchSize - 1) \div batchSize

\* pagesToProcessInBatch of batch number batch (from 0)
PagesInBatch(batch, pagesToProcess) ==
  LET startPage == batch * batchSize + 1
      endPage == Min(startPage + batchSize - 1, pagesToProcess)
  IN  [i \in 1..(endPage - startPage + 1) |-> startPage + i - 1]

\* the file is downloaded and found to be a PDF
StartPdf ==
  /\ pcPdf = "idle"
  /\ \E file \in Pdfs :
       /\ file.first = "missing" \/ file.hiccups = {}
       /\ pdf' = file
  /\ pcPdf' = "count"
  /\ UNCHANGED <<actualPageCount, requested, requestFailed>>
  /\ UNCHANGED outsidePdf

\* the page-count check
CountPages ==
  /\ pcPdf = "count"
  /\ actualPageCount' = CountedPages(pdf)
  /\ requestFailed' =
       \/ pdf.first = "error"
       \/ pdf.first = "missing" /\ pdf.hiccups \cap (1..pdf.pages) # {}
  /\ pcPdf' = IF NumBatches(PagesToProcess(pdf, actualPageCount')) = 0
              THEN "done" ELSE "extract"
  /\ UNCHANGED <<pdf, requested>>
  /\ UNCHANGED outsidePdf

\* how an extraction request may end: pages of the file are extracted unless
\* the request throws; a request that names a page the file does not have is
\* answered with the pages there are or with 'Invalid pages'
BatchOutcomes(pages) ==
  IF \A i \in DOMAIN pages : pages[i] <= pdf.pages
  THEN {"extracted", "error"}
  ELSE {"extracted", "invalid pages", "error"}

\* one pass of the batch loop
ExtractBatch ==
  /\ pcPdf = "extract"
  /\ LET pagesToProcess == PagesToProcess(pdf, actualPageCount)
         batch == Len(requested)
         pagesToProcessInBatch == PagesInBatch(batch, pagesToProcess)
     IN  /\ requested' = Append(requested, pagesToProcessInBatch)
         /\ \E outcome \in BatchOutcomes(pagesToProcessInBatch) :
              /\ requestFailed' = (requestFailed \/ outcome = "error")
              /\ pcPdf' = IF outcome = "extracted" /\ batch + 1 < NumBatches(pagesToProcess)
                          THEN "extract" ELSE "done"
  /\ UNCHANGED <<pdf, actualPageCount>>
  /\ UNCHANGED outsidePdf

\* ------------------------------------------- phase1PurchaseCollateralStep
\* the documents of one field as the OCR tool returns them: every file read by
\* the OCR, then typed by the classifier or by its catch block
ReturnedDocuments(field, max) ==
  UNION {[1..n -> {Classified(OcrDocument([name |-> <<field, k>>, contentType |-> "pdf"],
                                          TRUE), c) :
                     k \in 1..max, c \in ClassifierAnswers \cup {ClassifyCatch}}]
           : n \in 0..max}

\* what googleVisionPurchaseCollateralOcrTool.execute may return to phase 1
OcrReturns1 ==
  {OcrFailure(why) : why \in RecordFailures \cup {"exception"}}
  \cup
  {[success |-> TRUE, purchaseDocuments |-> p, collateralDocuments |-> c,
    error |-> "none"] :
     p \in {d \in ReturnedDocuments("p", MaxPurchaseFiles) :
              \A i \in DOMAIN d : d[i].fileName = <<"p", i>>},
     c \in {d \in ReturnedDocuments("c", MaxCollateralFiles) :
              \A i \in DOMAIN d : d[i].fileName = <<"c", i>>}}

\* the catch of execute: throw new Error(`Phase 1 処理失敗: ...`)
Phase1Throws(why) ==
  /\ pc1' = "failed"
  /\ phase1Error' = why

\* step 1: the OCR tool is awaited
Phase1Ocr ==
  /\ pc1 = "ocr"
  /\ \/ /\ Phase1Throws("ocr threw")
        /\ UNCHANGED ocrReturned
     \/ \E result \in OcrReturns1 :
          /\ ocrReturned' = result
          /\ pc1' = "purchase"
          /\ UNCHANGED phase1Error
  /\ UNCHANGED phase1Results
  /\ UNCHANGED outsidePhase1

\* doc.documentType?.includes("請求書") || doc.documentType?.includes("invoice")
InvoiceDocuments(documents) ==
  {i \in DOMAIN documents : documents[i].documentType = "invoice"}

\* the checks after the OCR and step 2: the purchase verification tool is
\* awaited with the invoices only
Phase1Purchase ==
  /\ pc1 = "purchase"
  /\ IF ~ocrReturned.success THEN Phase1Throws("ocr failed")
     ELSE IF InvoiceDocuments(ocrReturned.purchaseDocuments) = {}
          THEN Phase1Throws("no invoice")
          ELSE \/ Phase1Throws("purchase verification failed")
               \/ /\ pc1' = "collateral"
                  /\ UNCHANGED phase1Error
  /\ UNCHANGED <<ocrReturned, phase1Results>>
  /\ UNCHANGED outsidePhase1

\* step 3: the collateral verification tool is awaited; its failure is an
\* error only when there are collateral documents
Phase1Collateral ==
  /\ pc1 = "collateral"
  /\ \E success \in BOOLEAN :
       IF ~success /\ Len(ocrReturned.collateralDocuments) > 0
       THEN /\ Phase1Throws("collateral verification failed")
            /\ UNCHANGED phase1Results
       ELSE /\ pc1' = "done"
            /\ phase1Results' =
                 [purchaseDocuments |->
                    [i \in DOMAIN ocrReturned.purchaseDocuments |->
                       [fileName |-> ocrReturned.purchaseDocuments[i].fileName,
                        documentType |-> ocrReturned.purchaseDocuments[i].documentType]],
                  collateralDocuments |->
                    [i \in DOMAIN ocrReturned.collateralDocuments |->
                       [fileName |-> ocrReturned.collateralDocuments[i].fileName,
                        documentType |-> ocrReturned.collateralDocuments[i].documentType]]]
            /\ UNCHANGED phase1Error
  /\ UNCHANGED ocrReturned
  /\ UNCHANGED outsidePhase1

\* ------------------- googleVisionIdentityOcrTool and the identity part of phase 3
IdentityFailure(why) == [success |-> FALSE, identityDocuments |-> <<>>, error |-> why]

StartIdentityOcr ==
  /\ pcUnit = "idle"
  /\ \/ /\ pcUnit' = "threw"
        /\ backend' = [Quiet EXCEPT !.record = "unconfigured"]
        /\ UNCHANGED <<attached, identityOutput>>
     \/ \E why \in RecordFailures :
          /\ backend' = [Quiet EXCEPT !.record = why]
          /\ identityOutput' = IdentityFailure(why)
          /\ pcUnit' = "identity"
          /\ UNCHANGED attached
     \/ \E f \in Attachments("i", MaxIdentityFiles) :
          \E b \in Backends(Names(f)) :
            /\ b.extracts = {}
            /\ attached' = [attached EXCEPT !.identity = f]
            /\ backend' = b
            /\ IF f = <<>>
               THEN /\ identityOutput' = IdentityFailure("nofile")
                    /\ pcUnit' = "identity"
               ELSE /\ pcUnit' = "identity-ocr"
                    /\ UNCHANGED identityOutput
  /\ UNCHANGED <<ocrResults, classified, ocrOutput, identityDocuments,
                 identityResult, identitySummary, negativeSearchResults,
                 allCompanies, companySearchResult, companyVerificationResults>>
  /\ UNCHANGED outsideUnit

\* one pass of the loop: the download and the OCR are inside the try
IdentityFile ==
  /\ pcUnit = "identity-ocr"
  /\ Len(identityDocuments) < Len(attached.identity)
  /\ LET file == attached.identity[Len(identityDocuments) + 1] IN
       identityDocuments' = Append(identityDocuments,
         IF file.name \in backend.serves /\ file.name \in backend.reads
         THEN [fileName |-> file.name, text |-> "text", pageCount |-> 1]
         ELSE [fileName |-> file.name, text |-> "error", pageCount |-> 0])
  /\ UNCHANGED <<pcUnit, attached, backend, ocrResults, classified, ocrOutput,
                 identityOutput, identityResult, identitySummary,
                 negativeSearchResults, allCompanies, companySearchResult,
                 companyVerificationResults>>
  /\ UNCHANGED outsideUnit

IdentityReturns ==
  /\ pcUnit = "identity-ocr"
  /\ Len(identityDocuments) = Len(attached.identity)
  /\ identityOutput' = [success |-> Len(identityDocuments) > 0,
                        identityDocuments |-> identityDocuments,
                        error |-> "none"]
  /\ pcUnit' = "identity"
  /\ UNCHANGED <<attached, backend, ocrResults, classified, ocrOutput,
                 identityDocuments, identityResult, identitySummary,
                 negativeSearchResults, allCompanies, companySearchResult,
                 companyVerificationResults>>
  /\ UNCHANGED outsideUnit

\* what identityVerificationTool returns; its catch block returns 不明 with the error
IdentityResults ==
  {[documentType |-> t, summary |-> s] :
     t \in {"license"}, s \in {"matched", "mismatch"}}
  \cup {[documentType |-> "unknown", summary |-> "error"]}

\* a summary that would report an identity check that was not made as a mismatch
IdentityMismatch ==
  [documentType |-> "unknown", result |-> "mismatch", personCount |-> 0, matchedCount |-> 0]

\* 書類タイプ "なし", 照合結果 "本人確認書類が添付されていません"
NoIdentityDocument ==
  [documentType |-> "none", result |-> "not attached", personCount |-> 0, matchedCount |-> 0]

IdentitySummary(result) ==
  IF result # Null
  THEN [documentType |-> result.documentType, result |-> result.summary,
        personCount |-> 1, matchedCount |-> IF result.summary = "matched" THEN 1 ELSE 0]
  ELSE NoIdentityDocument

\* phase 3, steps 1-1 and 1-2 and the summary: ocrResult.success is not read
VerifyIdentity ==
  /\ pcUnit = "identity"
  /\ IF Len(identityOutput.identityDocuments) > 0
     THEN \E r \in IdentityResults : identityResult' = r
     ELSE identityResult' = Null
  /\ identitySummary' = IdentitySummary(identityResult')
  /\ pcUnit' = "done"
  /\ UNCHANGED <<attached, backend, ocrResults, classified, ocrOutput,
                 identityDocuments, identityOutput, negativeSearchResults,
                 allCompanies, companySearchResult, companyVerificationResults>>
  /\ UNCHANGED outsideUnit

\* ------------------------------------------ the negative queries of egoSearchTool
\* performSerperSearch: without a key, on an error of the backend and on an
\* empty answer it returns []; it never throws
PerformSerperSearch(outcome) ==
  IF outcome = "hits" THEN <<[title |-> "t", url |-> "u", snippet |-> "s"]>> ELSE <<>>

NegativeQueryResult(query, results) ==
  [query |-> query,
   found |-> Len(results) > 0,
   results |-> IF Len(results) > 0 THEN Arr(results) ELSE Null]

StartSearch ==
  /\ pcUnit = "idle"
  /\ \E outcomes \in [Queries -> SearchOutcomes] :
       backend' = [Quiet EXCEPT !.search = outcomes]
  /\ pcUnit' = "search"
  /\ UNCHANGED <<attached, ocrResults, classified, ocrOutput, identityDocuments,
                 identityOutput, identityResult, identitySummary,
                 negativeSearchResults, allCompanies, companySearchResult,
                 companyVerificationResults>>
  /\ UNCHANGED outsideUnit

\* one pass of the loop over negativeQueries
NegativeSearch ==
  /\ pcUnit = "search"
  /\ LET query == Len(negativeSearchResults) + 1 IN
       /\ query \in Queries
       /\ negativeSearchResults' = Append(negativeSearchResults,
            NegativeQueryResult(query, PerformSerperSearch(backend.search[query])))
       /\ pcUnit' = IF query + 1 \in Queries THEN "search" ELSE "done"
  /\ UNCHANGED <<attached, backend, ocrResults, classified, ocrOutput,
                 identityDocuments, identityOutput, identityResult, identitySummary,
                 allCompanies, companySearchResult, companyVerificationResults>>
  /\ UNCHANGED outsideUnit

\* ---------------------------------------- the company verification of phase 3
KintoneCompanies == {"A", "B"}

Company(name, type) == [name |-> name, type |-> type]

\* 申込企業 (none when 屋号 and 会社名 are empty or the lookup failed)
ApplicantCompanies == {<<>>} \cup {<<Company(n, "applicant")>> : n \in KintoneCompanies}

\* debtorCompanies of phase 1 (none in integratedWorkflow, whose steps get recordId only)
PurchaseCompanies == {<<>>} \cup {<<Company(n, "purchase")>> : n \in KintoneCompanies}

\* the rows of 担保情報 that carry a company name
CollateralCompanies ==
  UNION {[1..n -> {Company(c, "collateral") : c \in KintoneCompanies}] :
           n \in 0..MaxCollateralRows}

Confidences == {50, 80}

\* companyAnalysis.companies of result.object: any indexes, any verdicts
CompanyAnswers ==
  UNION {[1..n -> [companyIndex : 0..2, verified : BOOLEAN, confidence : Confidences]] :
           n \in 0..MaxAnswers}

\* the catch block of analyzeStage2FullContent
CompanyFallback(companies) ==
  [i \in DOMAIN companies |-> [companyIndex |-> i - 1, verified |-> FALSE, confidence |-> 0]]

\* companies.find(c => c.companyIndex === idx)
Find(companies, idx) ==
  IF \E k \in DOMAIN companies : companies[k].companyIndex = idx
  THEN companies[CHOOSE k \in DOMAIN companies :
                   /\ companies[k].companyIndex = idx
                   /\ \A j \in 1..(k - 1) : companies[j].companyIndex # idx]
  ELSE Null

CompanyVerificationResult(company, analysis) ==
  IF analysis = Null
  THEN [companyName |-> company.companyName, companyType |-> company.companyType,
        verified |-> FALSE, confidence |-> 0]
  ELSE [companyName |-> company.companyName, companyType |-> company.companyType,
        verified |-> analysis.verified, confidence |-> analysis.confidence]

\* phase 3, step 3: allCompanies and companyVerifyBatchTool, whose searches
\* return [] on an error
SearchCompanies ==
  /\ pcUnit = "idle"
  /\ \E a \in ApplicantCompanies, p \in PurchaseCompanies, c \in CollateralCompanies :
       /\ allCompanies' = a \o p \o c
       /\ companySearchResult' =
            [i \in 1..Len(a \o p \o c) |->
               [companyIndex |-> i - 1,
                companyName |-> (a \o p \o c)[i].name,
                companyType |-> (a \o p \o c)[i].type]]
  /\ pcUnit' = "companies"
  /\ UNCHANGED <<attached, backend, ocrResults, classified, ocrOutput,
                 identityDocuments, identityOutput, identityResult, identitySummary,
                 negativeSearchResults, companyVerificationResults>>
  /\ UNCHANGED outsideUnit

\* analyzeStage2FullContent (its companyAnalysis) and 企業検証結果を生成
VerifyCompanies ==
  /\ pcUnit = "companies"
  /\ \E companies \in CompanyAnswers \cup {CompanyFallback(companySearchResult)} :
       companyVerificationResults' =
         [i \in DOMAIN companySearchResult |->
            CompanyVerificationResult(companySearchResult[i],
              Find(companies, companySearchResult[i].companyIndex))]
  /\ pcUnit' = "done"
  /\ UNCHANGED <<attached, backend, ocrResults, classified, ocrOutput,
                 identityDocuments, identityOutput, identityResult, identitySummary,
                 negativeSearchResults, allCompanies, companySearchResult>>
  /\ UNCHANGED outsideUnit

\* ============================================================ specifications
NoReport == [negativeInfo |-> FALSE, fraudSite |-> FALSE, web |-> {}]

InitEgo ==
  /\ pc3 = "search"
  /\ ego = EmptyFn
  /\ hits = EmptyFn
  /\ stage1Results = EmptyFn
  /\ stage1Err = FALSE
  /\ fetched = {}
  /\ stage2Results = EmptyFn
  /\ stage2Err = FALSE
  /\ report = NoReport

InitBank ==
  /\ pc2 = "ocr"
  /\ ocrResult = Null
  /\ ledger = <<>>
  /\ collaterals = <<>>
  /\ mainBankAnalysis = Null
  /\ subBankAnalysis = Null
  /\ phase2Results = Null
  /\ phase2Error = "none"

\* the run of integratedWorkflow before it is started
InitFlow ==
  /\ phaseStatus = [i \in Phases |-> "pending"]
  /\ phaseData = [i \in Phases |-> Null]
  /\ runStatus = "pending"
  /\ runResult = Null
  /\ pc4 = "idle"
  /\ inputData = [i \in Phases |-> Null]
  /\ inputDataForAI = Null
  /\ fullPrompt = Null
  /\ stepInput = [i \in Phases |-> Null]
  /\ phase4Error = "none"

\* phase 4 executed on its own: every key of its inputData is optional
InitReport ==
  /\ phaseStatus = [i \in Phases |-> "pending"]
  /\ phaseData = [i \in Phases |-> Null]
  /\ runStatus = "running"
  /\ runResult = Null
  /\ pc4 = "kintone"
  /\ inputData \in {<<d1, d2, d3>> : d1 \in {Null} \cup Phase1Values,
                                        d2 \in {Null} \cup Phase2Values,
                                        d3 \in {Null} \cup Phase3Values}
  /\ inputDataForAI = Null
  /\ fullPrompt = Null
  /\ stepInput = [i \in Phases |-> Null]
  /\ phase4Error = "none"

\* no tool has been called
InitUnit ==
  /\ pcUnit = "idle"
  /\ attached = NoAttachment
  /\ backend = Quiet
  /\ ocrResults = [field \in Fields |-> <<>>]
  /\ classified = [field \in Fields |-> <<>>]
  /\ ocrOutput = Null
  /\ identityDocuments = <<>>
  /\ identityOutput = Null
  /\ identityResult = Null
  /\ identitySummary = Null
  /\ negativeSearchResults = <<>>
  /\ allCompanies = <<>>
  /\ companySearchResult = <<>>
  /\ companyVerificationResults = <<>>

InitQuery ==
  /\ pcQuery = "search"
  /\ negativeResult = SearchedQuery(<<>>)
  /\ triage = EmptyFn
  /\ verdicts = EmptyFn

InitPhase1 ==
  /\ pc1 = "ocr"
  /\ ocrReturned = Null
  /\ phase1Results = Null
  /\ phase1Error = "none"

InitPdf ==
  /\ pcPdf = "idle"
  /\ pdf = Null
  /\ actualPageCount = 0
  /\ requested = <<>>
  /\ requestFailed = FALSE

Init ==
  InitEgo /\ InitBank /\ InitFlow /\ InitUnit /\ InitQuery /\ InitPhase1 /\ InitPdf

NextEgo ==
  \/ EgoSearch
  \/ Stage1
  \/ FetchArticles
  \/ Stage2

NextBank ==
  \/ Ocr
  \/ FetchCollaterals
  \/ AnalyzeMainBank
  \/ AnalyzeSubBank

SpecEgo == Init /\ [][NextEgo]_vars

SpecBank == Init /\ [][NextBank]_vars

NextFlow ==
  \/ StartRun
  \/ Phase1Ends
  \/ Phase2Ends
  \/ Phase3Ends
  \/ Phase4Kintone
  \/ Phase4Generate

SpecFlow == Init /\ [][NextFlow]_vars

NextReport ==
  \/ Phase4Kintone
  \/ Phase4Generate

InitStandalone ==
  InitEgo /\ InitBank /\ InitReport /\ InitUnit /\ InitQuery /\ InitPhase1 /\ InitPdf

SpecReport == InitStandalone /\ [][NextReport]_vars

\* one call of one tool, with the part of phase 3 that reads its result
NextUnit ==
  \/ StartOcr
  \/ ProcessFiles
  \/ OcrJoined
  \/ Classify
  \/ OcrReturns
  \/ StartIdentityOcr
  \/ IdentityFile
  \/ IdentityReturns
  \/ VerifyIdentity
  \/ StartSearch
  \/ NegativeSearch
  \/ SearchCompanies
  \/ VerifyCompanies

SpecUnit == Init /\ [][NextUnit]_vars

\* phase 2 or the identity part of phase 3, one of them per behaviour
NextNoData ==
  \/ pcUnit = "idle" /\ NextBank
  \/ pc2 = "ocr" /\ (StartIdentityOcr \/ IdentityFile \/ IdentityReturns \/ VerifyIdentity)

SpecNoData == Init /\ [][NextNoData]_vars

NextQuery ==
  \/ QuerySearch
  \/ QueryStage1
  \/ QueryFetch
  \/ QueryStage2

SpecQuery == Init /\ [][NextQuery]_vars

NextPhase1 ==
  \/ Phase1Ocr
  \/ Phase1Purchase
  \/ Phase1Collateral

SpecPhase1 == Init /\ [][NextPhase1]_vars

NextPdf ==
  \/ StartPdf
  \/ CountPages
  \/ ExtractBatch

SpecPdf == Init /\ [][NextPdf]_vars

\* ======================================================================
\* Properties of the adverse-media filter
\* ======================================================================
\* the candidates of the run, by their place in what the searches returned
WebCandidates ==
  {c \in Persons \X Queries \X (1..MaxHits) : c[3] <= hits[c[1]].counts[c[2]]}

ArticleCandidates == {c \in Persons \X (1..MaxHits) : c[2] <= hits[c[1]].articles}

\* the candidate is in the subject's results
KeptWeb(p, q, i) ==
  /\ ego[p].neg[q].found
  /\ \E j \in 1..Len(ego[p].neg[q].results) : ego[p].neg[q].results[j].src = i

KeptArticle(p, i) ==
  /\ ego[p].fraud.found
  /\ \E j \in 1..Len(ego[p].fraud.articles) : ego[p].fraud.articles[j].src = i

\* stage 2 returned a classification of the candidate
ClassifiedWeb(p, q, i) ==
  /\ p \in DOMAIN stage2Results
  /\ q \in DOMAIN stage2Results[p].queries
  /\ i \in DOMAIN stage2Results[p].queries[q]

ClassifiedArticle(p, i) ==
  /\ p \in DOMAIN stage2Results
  /\ i \in DOMAIN stage2Results[p].fraudSiteArticles

\* the stage-1 entry of the candidate: "true", "false" or "none"
Stage1Flag(p, q, i) ==
  IF /\ p \in DOMAIN stage1Results
     /\ q \in DOMAIN stage1Results[p]
     /\ i \in DOMAIN stage1Results[p][q]
  THEN (IF stage1Results[p][q][i] THEN "true" ELSE "false")
  ELSE "none"

\* C1: once stage 2 has been applied, a candidate is kept in its subject's
\* results only if stage 2 classified it with nameMatch true and
\* isFraudRelated true; a candidate without a classification is rejected.
C1_KeptOnlyIfStrictlyClassified ==
  pc3 = "done" =>
    /\ \A c \in WebCandidates :
         KeptWeb(c[1], c[2], c[3]) =>
           (/\ ClassifiedWeb(c[1], c[2], c[3])
            /\ stage2Results[c[1]].queries[c[2]][c[3]].nameMatch = "true"
            /\ stage2Results[c[1]].queries[c[2]][c[3]].isFraudRelated = "true")
    /\ \A c \in ArticleCandidates :
         KeptArticle(c[1], c[2]) =>
           (/\ ClassifiedArticle(c[1], c[2])
            /\ stage2Results[c[1]].fraudSiteArticles[c[2]].nameMatch
            /\ stage2Results[c[1]].fraudSiteArticles[c[2]].isFraudRelated)

\* C2: when the stage-2 call throws, every candidate under review stays in
\* its subject's results, and the applicant's are listed in the report.
C2_Stage2ErrorKeepsEveryCandidate ==
  (pc3 = "done" /\ stage2Err) =>
    /\ \A c \in WebCandidates : KeptWeb(c[1], c[2], c[3])
    /\ \A c \in ArticleCandidates : KeptArticle(c[1], c[2])
    /\ \A c \in WebCandidates : c[1] = 0 => <<c[2], c[3]>> \in report.web
    /\ hits[0].articles > 0 => report.fraudSite

\* C3: a candidate that stage 1 answered needsFullCheck=false for is never
\* among the kept results of the finished run.
C3_TriageRejectedNeverKept ==
  pc3 = "done" =>
    \A c \in WebCandidates :
      Stage1Flag(c[1], c[2], c[3]) = "false" => ~KeptWeb(c[1], c[2], c[3])

C5_ReportOnlyClassified ==
  pc3 = "done" =>
    /\ \A e \in report.web :
         /\ ClassifiedWeb(0, e[1], e[2])
         /\ stage2Results[0].queries[e[1]][e[2]].isRelevant
         /\ stage2Results[0].queries[e[1]][e[2]].nameMatch = "true"
         /\ stage2Results[0].queries[e[1]][e[2]].isFraudRelated = "true"
    /\ report.fraudSite =>
         \E c \in ArticleCandidates :
           /\ c[1] = 0
           /\ ClassifiedArticle(0, c[2])
           /\ stage2Results[0].fraudSiteArticles[c[2]].isRelevant
           /\ stage2Results[0].fraudSiteArticles[c[2]].nameMatch
           /\ stage2Results[0].fraudSiteArticles[c[2]].isFraudRelated

\* C6: when the stage-1 call throws, every result of every query that
\* returned results, of every subject, is flagged needsFullCheck=true.
C6_Stage1ErrorFlagsEveryResult ==
  stage1Err => \A c \in WebCandidates : Stage1Flag(c[1], c[2], c[3]) = "true"

\* the stage-1 call threw in a run with results for two different subjects
C6_Witness ==
  /\ stage1Err
  /\ \E c \in WebCandidates : \E d \in WebCandidates : c[1] # d[1]

\* some result carries what a fetch returned
SomeFetch(e) ==
  \E p \in DOMAIN e : \E q \in Queries : \E j \in 1..Len(e[p].neg[q].results) :
    e[p].neg[q].results[j].htmlContent # "undefined"

\* C24: the fetch step is entered only from the state in which the stage-1
\* call, which triages every query of every subject, has returned; the first
\* fetched content appears in that step, and no triage answer changes once
\* the fetch step has been entered.
C24_TriageBeforeAnyFetch ==
  [][/\ (pc3' = "stage2" /\ pc3 # "stage2") => pc3 = "fetch"
     /\ (SomeFetch(ego') /\ ~SomeFetch(ego)) => pc3 = "fetch"
     /\ pc3 \in {"fetch", "stage2", "done"} => stage1Results' = stage1Results]_vars

\* articles of two different subjects were fetched, after a triage that
\* answered for both
C24_Witness ==
  /\ pc3 = "stage2"
  /\ \E c \in fetched : \E d \in fetched : c[1] # d[1]
  /\ ~stage1Err

\* C26: in the finished run the applicant's negative-information flag is
\* true exactly when at least one candidate of the applicant, web result or
\* fraud-site article, is kept as confirmed in the applicant's results.
C26_FlagIffConfirmedCandidate ==
  pc3 = "done" =>
    /\ report.negativeInfo = ego[0].summary.hasNegativeInfo
    /\ report.negativeInfo <=>
         \/ \E c \in WebCandidates : c[1] = 0 /\ KeptWeb(0, c[2], c[3])
         \/ \E c \in ArticleCandidates : c[1] = 0 /\ KeptArticle(0, c[2])

\* the flag is raised by a fraud-site article alone: no web result of the
\* applicant is kept, and stage 2 answered
C26_Witness ==
  /\ pc3 = "done"
  /\ ~stage2Err
  /\ report.negativeInfo
  /\ \E c \in WebCandidates : c[1] = 0
  /\ \A c \in WebCandidates : c[1] = 0 => ~KeptWeb(0, c[2], c[3])

\* C27: a web result whose article fetch returned null is never kept as
\* confirmed once stage 2 has classified it.
C27_FailedFetchNeverConfirmed ==
  pc3 = "done" =>
    \A p \in Persons : \A q \in Queries :
      \A j \in 1..Len(ego[p].neg[q].results) :
        (/\ ego[p].neg[q].found
         /\ ClassifiedWeb(p, q, ego[p].neg[q].results[j].src)) =>
          ego[p].neg[q].results[j].htmlContent # "null"

\* the names have the same length and differ in exactly one character
DiffersByOneCharacter(a, b) ==
  /\ Len(a) = Len(b)
  /\ Cardinality({i \in 1..Len(a) : a[i] # b[i]}) = 1

\* stage 2 returned a classification of result i of the query
Judged(i) == 1 \in DOMAIN verdicts /\ i \in DOMAIN verdicts[1]

\* C22: a result for which stage 2 extracted a name that differs from the
\* applicant's name in exactly one character is never kept in the query's
\* results, whatever the other fields of its classification say.
C22_OneKanjiOffNeverConfirmed ==
  pcQuery = "done" =>
    \A j \in 1..Len(negativeResult.results) :
      LET i == negativeResult.results[j].src IN
        (negativeResult.found /\ Judged(i)) =>
          ~DiffersByOneCharacter(verdicts[1][i].extractedName, SubjectName)

\* C23: a result whose link is on one of the social-media domains is never
\* kept in the query's results once stage 2 has classified it.
C23_SocialMediaNeverConfirmed ==
  pcQuery = "done" =>
    \A j \in 1..Len(negativeResult.results) :
      (negativeResult.found /\ Judged(negativeResult.results[j].src)) =>
        negativeResult.results[j].url # "sns"

\* C28: when the OCR tool succeeded, the purchase and collateral verification
\* did not fail, and a purchase document is typed unclassifiable because its
\* classification failed, phase 1 is not aborted for that: it never throws for
\* a missing invoice while a purchase document is typed unclassifiable.
C28_ClassificationFailureSparesPhase1 ==
  (pc1 = "failed" /\ phase1Error = "no invoice") =>
    \A i \in DOMAIN ocrReturned.purchaseDocuments :
      ocrReturned.purchaseDocuments[i].documentType # "unclassifiable"

\* ======================================================================
\* Properties of the collateral reconciliation of phase 2
\* ======================================================================
\* the tolerance of a match (the ±1,000円 of the reconciliation rules)
Tol == 1000

Returned == pc2 = "done" /\ phase2Results.mainBankAnalysis # Null

\* the verdicts of the returned value: <<counterparty, month>>
Verdicts ==
  {v \in (1..MaxCompanies) \X Months :
     v[1] <= Len(phase2Results.mainBankAnalysis.collateralMatches)}

MonthlyResultOf(v) ==
  phase2Results.mainBankAnalysis.collateralMatches[v[1]].monthlyResults[v[2]]

Abs(n) == IF n < 0 THEN -n ELSE n

TxNos(txs) == {txs[k].no : k \in 1..Len(txs)}

\* C7: in the returned value, a period marked matched has matched
\* transactions whose amounts sum to within the tolerance of its expected
\* amount.
C7_MatchedWithinTolerance ==
  Returned =>
    \A v \in Verdicts :
      MonthlyResultOf(v).matched =>
        Abs(SumAmounts(MonthlyResultOf(v).matchedTransactions) - MonthlyResultOf(v).expected)
          <= Tol

\* C8: in the returned value, no transaction is among the matched
\* transactions of two different months of the same counterparty.
C8_TransactionInOnePeriod ==
  Returned =>
    \A v \in Verdicts : \A w \in Verdicts :
      (v[1] = w[1] /\ v[2] # w[2]) =>
        TxNos(MonthlyResultOf(v).matchedTransactions)
          \cap TxNos(MonthlyResultOf(w).matchedTransactions) = {}

\* C9: in the returned value, a period with expected amount 0 of a
\* counterparty without any inflow in the passbook is marked matched, with a
\* matched amount of 0 (nothing counted as prior history).
C9_ZeroExpectedIsMatched ==
  Returned =>
    \A v \in Verdicts :
      (MonthlyResultOf(v).expected = 0 /\ ledger = <<>>) =>
        (MonthlyResultOf(v).matched /\ MonthlyResultOf(v).actual = 0)

\* C10: when the main-passbook extraction call fails, the step still reports,
\* for every counterparty of the collateral list and every month, a verdict
\* that is unmatched and marked as "analysis unavailable".
C10_ExtractionErrorReportedAsUnavailable ==
  phase2Error = "mainBank" =>
    /\ phase2Results # Null
    /\ phase2Results.mainBankAnalysis # Null
    /\ Len(phase2Results.mainBankAnalysis.collateralMatches) = Len(collaterals)
    /\ \A v \in Verdicts :
         /\ ~MonthlyResultOf(v).matched
         /\ MonthlyResultOf(v).matchType = "analysis unavailable"

\* the detection's name and the name of a 担保情報 row with a company name
\* contain one another
OverlapsNamedCollateral(f) ==
  \E i \in 1..Len(collaterals) :
    /\ collaterals[i].company # <<>>
    /\ Includes(f.companyName, collaterals[i].company)
         \/ Includes(collaterals[i].company, f.companyName)

\* C29: in the value phase 2 returns, a detected lender transaction is
\* missing from factoringCompanies only if it is on the exclusion list or its
\* name overlaps a non-empty collateral company name; a 担保情報 row with an
\* empty company name drops no detection.
C29_EmptyCollateralNameDropsNothing ==
  (pc2 = "done" /\ phase2Results # Null) =>
    \A a \in {b \in {mainBankAnalysis, subBankAnalysis} : b # Null} :
      \A k \in DOMAIN a.factoringCompaniesDetected :
        LET f == a.factoringCompaniesDetected[k] IN
          (~IsExcluded(f) /\ ~OverlapsNamedCollateral(f)) =>
            \E j \in DOMAIN phase2Results.factoringCompanies :
              phase2Results.factoringCompanies[j].companyName = f.companyName

\* ======================================================================
\* Properties of the integrated workflow and of the report step
\* ======================================================================
Ended(i) == phaseStatus[i] \in {"success", "failed"}

Phase4Started == pc4 # "idle"

\* C11: phase 4 has started only if each of the three phases has ended; it is
\* never started while one of them is pending or running.
C11_Phase4AfterAllPhases ==
  Phase4Started => \A i \in Phases : Ended(i)

\* phase 4 is running after three phases that ended at different moments
C11_Witness ==
  /\ pc4 = "kintone"
  /\ \A i \in Phases : phaseStatus[i] = "success"
  /\ inputData = phaseData

\* C12: once a phase has failed, phase 4 is never started and the run returns
\* nothing; when the three phases have ended, the run is failed.
C12_FailedPhaseAbortsRun ==
  (\E i \in Phases : phaseStatus[i] = "failed") =>
    /\ ~Phase4Started
    /\ runResult = Null
    /\ runStatus # "success"
    /\ (\A i \in Phases : Ended(i)) => runStatus = "failed"

\* one phase failed, the two others succeeded, and the run is failed
C12_Witness ==
  /\ phaseStatus[2] = "failed"
  /\ phaseStatus[1] = "success"
  /\ phaseStatus[3] = "success"
  /\ runStatus = "failed"

Complete(d) ==
  /\ d.recordId # Null
  /\ d.phase1.purchaseDocuments # Null
  /\ d.phase1.collateralDocuments # Null
  /\ d.phase1.purchaseVerification # Null
  /\ d.phase1.collateralExtraction # Null
  /\ d.phase2.mainBankAnalysis # Null
  /\ d.phase2.factoringAnalysis # Null
  /\ d.phase3.identity # Null
  /\ d.phase3.egoSearch # Null
  /\ d.phase3.companies # Null
  /\ d.phase3.representatives # Null

MissingPhaseFailure ==
  pc4 = "failed" /\ phase4Error = "kintone" /\ RecordId(inputData) = Null

InputBuilt == pc4 \in {"generate", "done"}

OutputDocuments(field) ==
  IF field = "purchase" THEN ocrOutput.purchaseDocuments ELSE ocrOutput.collateralDocuments

\* the file is delivered by the record store and read by the OCR
Healthy(file) == file.name \in backend.serves /\ file.name \in backend.reads

ReadIn(file, documents) ==
  \E k \in DOMAIN documents :
    documents[k].fileName = file.name /\ documents[k].text = "text"

\* C14: when a tool has returned for a record that was found, every attached
\* file that is itself delivered and readable is among the returned documents
\* with its text, whatever happened to the other files of the record.
C14_FileFailureSparesSiblings ==
  /\ (ocrOutput # Null /\ backend.record = "found") =>
       \A field \in Fields : \A i \in DOMAIN attached[field] :
         Healthy(attached[field][i]) =>
           ReadIn(attached[field][i], OutputDocuments(field))
  /\ (identityOutput # Null /\ backend.record = "found") =>
       \A i \in DOMAIN attached.identity :
         Healthy(attached.identity[i]) =>
           ReadIn(attached.identity[i], identityOutput.identityDocuments)

AllDelivered ==
  \A field \in Fields : \A i \in DOMAIN attached[field] :
    attached[field][i].name \in backend.serves

\* C15: when classifyAndExtractInfo fails for a document, the returned list
\* keeps that document with documentType "unclassifiable" and no facts; the
\* list has one document per attached file, the others carry the classifier's
\* answer, and the tool still succeeds.
C15_ExtractionFailureKeepsDocument ==
  (ocrOutput # Null /\ backend.record = "found" /\ AllDelivered) =>
    /\ ocrOutput.success
    /\ \A field \in Fields :
         /\ Len(OutputDocuments(field)) = Len(attached[field])
         /\ \A i \in DOMAIN attached[field] :
              LET document == OutputDocuments(field)[i] IN
                /\ document.fileName = attached[field][i].name
                /\ IF document.fileName \in backend.extracts
                   THEN document.documentType \in {"invoice", "registry"}
                   ELSE /\ document.documentType = "unclassifiable"
                        /\ document.extractedFacts = {}

\* two purchase documents returned: extraction failed for the first, not for the second
C15_Witness ==
  /\ ocrOutput # Null
  /\ ocrOutput.success
  /\ Len(ocrOutput.purchaseDocuments) = 2
  /\ ocrOutput.purchaseDocuments[1].fileName \notin backend.extracts
  /\ ocrOutput.purchaseDocuments[1].documentType = "unclassifiable"
  /\ ocrOutput.purchaseDocuments[2].fileName \in backend.extracts
  /\ ocrOutput.purchaseDocuments[2].extractedFacts = {"amount"}

\* what is recorded for a query that ran and found nothing
CheckedClean(query) == [query |-> query, found |-> FALSE, results |-> Null]

\* C16: what is recorded for a query whose search backend failed differs from
\* what is recorded for a query that ran and found nothing.
C16_SearchErrorIsMarked ==
  \A query \in DOMAIN negativeSearchResults :
    backend.search[query] = "error" =>
      negativeSearchResults[query] # CheckedClean(query)

C18_VerifiedHasConfidence ==
  pcUnit = "done" =>
    \A i \in DOMAIN companyVerificationResults :
      companyVerificationResults[i].verified =>
        companyVerificationResults[i].confidence >= 70

Counterparty(company) == company.type # "applicant"

\* C19: a run yields exactly one company verification result for each
\* distinct counterparty company (the debtors and the collateral rows).
C19_OneResultPerCompany ==
  pcUnit = "done" =>
    \A k \in DOMAIN allCompanies :
      Counterparty(allCompanies[k]) =>
        Cardinality({i \in DOMAIN companyVerificationResults :
                       /\ companyVerificationResults[i].companyType # "applicant"
                       /\ companyVerificationResults[i].companyName = allCompanies[k].name}) = 1

\* the transactions of the example: inflows 100@d1, 100@d3 and outflow 105@d5
LenderTx(type, date, amount) ==
  [companyName |-> "L", date |-> date, amount |-> amount, transactionType |-> type]

ExampleTransactions ==
  <<LenderTx("in", 1, 100), LenderTx("in", 3, 100), LenderTx("out", 5, 105)>>

\* C20: for the transactions of the example, the analysis handed to the
\* report pairs the inflow of d1 with the outflow of d5 and leaves the inflow
\* of d3 unpaired.
C20_GreedyChronologicalPairing ==
  (/\ InputBuilt
   /\ inputData[2] # Null
   /\ inputData[2].phase2Results.factoringCompanies = ExampleTransactions) =>
    \E k \in DOMAIN inputDataForAI.phase2.factoringAnalysis.companyAnalysis :
      LET company == inputDataForAI.phase2.factoringAnalysis.companyAnalysis[k] IN
        /\ company.pairedCycles =
             <<[inbound |-> LenderTx("in", 1, 100), outbound |-> LenderTx("out", 5, 105)]>>
        /\ company.unpairedInbound = <<LenderTx("in", 3, 100)>>

\* the report is generated ReportDay days after day 0 of the statement period
ReportDay == 91

PromptBuilt == fullPrompt # Null

\* C21: when phase 2 returned one inflow from a known lender with no later
\* outflow and the inflow is at least 60 days old when the report is built,
\* the factoring section handed to the report names that lender with the
\* status possiblyOpen.
C21_OldUnpairedInflowIsPossiblyOpen ==
  (/\ PromptBuilt
   /\ inputData[2] # Null
   /\ inputData[2].phase2Results.factoringCompanies = <<LenderTx("in", 1, 100)>>
   /\ ReportDay - 1 >= 60) =>
    \E k \in DOMAIN fullPrompt.factoring.rows :
      /\ fullPrompt.factoring.rows[k].companyName = "L"
      /\ fullPrompt.factoring.rows[k].actualStatus = "possiblyOpen"

\* the pages of the extraction requests, in the order they were requested
RECURSIVE Flatten(_)
Flatten(batches) ==
  IF batches = <<>> THEN <<>> ELSE Head(batches) \o Flatten(Tail(batches))

\* C30: when no request of the run failed, the extraction requests of a PDF
\* with N pages and limit M name exactly the pages 1..min(N, M), each once
\* and in ascending order, in batches of at most 5 pages.
C30_ExactlyTheFirstPages ==
  (pcPdf = "done" /\ ~requestFailed) =>
    /\ Flatten(requested) = [i \in 1..Min(pdf.pages, pdf.maxPagesPerFile) |-> i]
    /\ \A b \in DOMAIN requested : Len(requested[b]) \in 1..batchSize

====
